---- MODULE Spec2Model ----
(***************************************************************************)
(* Model of jw-extractor's HTML-to-Markdown converter                      *)
(* (src/src/lib/markdown-converter.ts, convertHtmlToMarkdown), of the      *)
(* server action that calls it (src/src/app/actions/extract-content.ts)    *)
(* and of the Home page component (src/src/app/page.tsx).                  *)
(*                                                                         *)
(* A string is a sequence of one-character strings.  The post-processing   *)
(* chain of line 217..266 is modelled pass by pass: every .replace(), the  *)
(* split/map/join and the final trim is one action, in the order of the    *)
(* source.  Regular expressions are modelled by the match a backtracking   *)
(* engine finds at a position (leftmost match, greedy or lazy quantifiers  *)
(* as written), and a global replace by a left-to-right scan.              *)
(***************************************************************************)
EXTENDS Integers, Sequences, FiniteSets

VARIABLES
    html,    \* the parsed HTML fragment handed to convertHtmlToMarkdown
    raw,     \* the string the post-processing chain started from
    md,      \* the `markdown` value as it moves through the chain
    prev,    \* the value of `markdown` before the last pass
    applied, \* the rule Turndown applied to each top-level node of the fragment
    pc,      \* the position in convertHtmlToMarkdown
    round,   \* 1: first run of the chain, 2: the chain run on its own output
    out1,    \* the result of the first run (kept for the second)
    url,           \* Home: the URL input's value
    error,         \* Home: the message under the URL input
    markdown,      \* Home: the extracted markdown shown in the textarea
    extractedHtml, \* Home: the HTML of the last successful extraction
    isLoading,     \* Home: an extraction is running
    isCopied,      \* Home: the Copy button shows "Copied!"
    inflight,      \* Home: the extractContent calls that have not settled yet
    timers,        \* Home: the pending setTimeout callbacks of handleCopy
    cleared        \* handleClear ran, and no URL was typed nor extraction started since

convVars == <<html, applied, raw, md, prev, pc, round, out1>>
pageVars ==
    <<url, error, markdown, extractedHtml, isLoading, isCopied, inflight, timers, cleared>>
vars == <<convVars, pageVars>>

\* the state of the Home component after its first render (useState, line 14..19)
PageIdle ==
    /\ url = ""
    /\ error = ""
    /\ markdown = <<>>
    /\ extractedHtml = <<>>
    /\ isLoading = FALSE
    /\ isCopied = FALSE
    /\ inflight = {}
    /\ timers = 0
    /\ cleared = FALSE

----------------------------------------------------------------------------
(* Characters *)

SP  == " "
NL  == "\n"
TAB == "\t"

\* JavaScript's \s, String.prototype.trim: the white space of the model's alphabet
WS == {SP, NL, TAB}

Digit == {"0", "1", "2", "3", "4", "5", "6", "7", "8", "9"}

UpperSeq == <<"A", "B", "C", "D", "E", "F", "G", "H", "I", "J", "K", "L", "M",
              "N", "O", "P", "Q", "R", "S", "T", "U", "V", "W", "X", "Y", "Z">>
LowerSeq == <<"a", "b", "c", "d", "e", "f", "g", "h", "i", "j", "k", "l", "m",
              "n", "o", "p", "q", "r", "s", "t", "u", "v", "w", "x", "y", "z">>

Upper == {UpperSeq[k] : k \in 1..26}
Lower == {LowerSeq[k] : k \in 1..26}

\* String.prototype.toUpperCase / toLowerCase on one character
ToUpperChar(c) ==
    IF c \in Lower THEN UpperSeq[CHOOSE k \in 1..26 : LowerSeq[k] = c] ELSE c
ToLowerChar(c) ==
    IF c \in Upper THEN LowerSeq[CHOOSE k \in 1..26 : UpperSeq[k] = c] ELSE c

ToUpperCase(s) == [k \in 1..Len(s) |-> ToUpperChar(s[k])]
ToLowerCase(s) == [k \in 1..Len(s) |-> ToLowerChar(s[k])]

----------------------------------------------------------------------------
(* String helpers *)

\* the character at position i, "" outside the string
At(s, i) == IF i >= 1 /\ i <= Len(s) THEN s[i] ELSE ""

Min(S) == CHOOSE x \in S : \A y \in S : x <= y
Max(S) == CHOOSE x \in S : \A y \in S : x >= y

\* the number of consecutive characters of C starting at position i
RECURSIVE RunLen(_, _, _)
RunLen(s, i, C) ==
    IF i <= Len(s) /\ s[i] \in C THEN 1 + RunLen(s, i + 1, C) ELSE 0

\* s has t at position i
HasAt(s, i, t) ==
    /\ i >= 1
    /\ i + Len(t) - 1 <= Len(s)
    /\ \A k \in 1..Len(t) : s[i + k - 1] = t[k]

\* t occurs in s
Contains(s, t) == \E i \in 1..(Len(s) - Len(t) + 1) : HasAt(s, i, t)

\* String.prototype.startsWith
StartsWith(s, t) == HasAt(s, 1, t)

\* String.prototype.trimEnd / trim
RECURSIVE TrimEnd(_)
TrimEnd(s) ==
    IF Len(s) > 0 /\ s[Len(s)] \in WS THEN TrimEnd(SubSeq(s, 1, Len(s) - 1)) ELSE s

RECURSIVE TrimStart(_)
TrimStart(s) ==
    IF Len(s) > 0 /\ s[1] \in WS THEN TrimStart(SubSeq(s, 2, Len(s))) ELSE s

Trim(s) == TrimEnd(TrimStart(s))

\* String.prototype.split(sep) for a one-character separator: never empty
RECURSIVE Split(_, _)
Split(s, sep) ==
    IF \E i \in 1..Len(s) : s[i] = sep
    THEN LET i == Min({k \in 1..Len(s) : s[k] = sep})
         IN  <<SubSeq(s, 1, i - 1)>> \o Split(SubSeq(s, i + 1, Len(s)), sep)
    ELSE <<s>>

\* Array.prototype.join(sep)
RECURSIVE Join(_, _)
Join(parts, sep) ==
    IF Len(parts) = 0 THEN <<>>
    ELSE IF Len(parts) = 1 THEN parts[1]
    ELSE parts[1] \o sep \o Join(Tail(parts), sep)

----------------------------------------------------------------------------
(* The regular expressions of the post-processing chain.                   *)
(* Each Match operator gives the length of the match the engine finds      *)
(* starting at position i, 0 when there is none (no pattern of the chain   *)
(* matches the empty string).                                              *)

NoNewline(s, a, b) == \A k \in a..b : s[k] /= NL

\* /!\[.*?\]\(.*?\)/ : both .*? are lazy and "." excludes the line break
ImageEnds(s, j) ==
    {k \in (j + 2)..Len(s) : s[k] = ")" /\ NoNewline(s, j + 2, k - 1)}
ImageMids(s, i) ==
    {j \in (i + 2)..Len(s) :
        /\ s[j] = "]"
        /\ At(s, j + 1) = "("
        /\ NoNewline(s, i + 2, j - 1)
        /\ ImageEnds(s, j) /= {}}
MatchImage(s, i) ==
    IF At(s, i) = "!" /\ At(s, i + 1) = "[" /\ ImageMids(s, i) /= {}
    THEN Min(ImageEnds(s, Min(ImageMids(s, i)))) - i + 1
    ELSE 0

\* /\*{3,}/
MatchAsteriskRun(s, i) ==
    LET r == RunLen(s, i, {"*"}) IN IF r >= 3 THEN r ELSE 0

\* /\*\*\s+\*\*/
MatchBrokenBold(s, i) ==
    LET r == RunLen(s, i + 2, WS)
    IN  IF HasAt(s, i, <<"*", "*">>) /\ r >= 1 /\ HasAt(s, i + 2 + r, <<"*", "*">>)
        THEN r + 4 ELSE 0

\* /\*\*\*\*/
MatchEmptyBold(s, i) == IF HasAt(s, i, <<"*", "*", "*", "*">>) THEN 4 ELSE 0

Punctuation == {".", ",", "!", "?", ";", ":"}

\* /\s+([.,!?;:])/
MatchSpacePunct(s, i) ==
    LET r == RunLen(s, i, WS)
    IN  IF r >= 1 /\ At(s, i + r) \in Punctuation THEN r + 1 ELSE 0

\* / {2,}/
MatchSpaces(s, i) ==
    LET r == RunLen(s, i, {SP}) IN IF r >= 2 THEN r ELSE 0

\* /\*\* +(?!\d)/ : when a digit follows the spaces the engine gives one space back
MatchBoldOpenSpace(s, i) ==
    LET r == RunLen(s, i + 2, {SP})
    IN  IF HasAt(s, i, <<"*", "*">>) /\ r >= 1
        THEN IF At(s, i + 2 + r) \notin Digit THEN r + 2
             ELSE IF r >= 2 THEN r + 1 ELSE 0
        ELSE 0

\* / +\*\*(?!\d)/
MatchSpaceBoldClose(s, i) ==
    LET r == RunLen(s, i, {SP})
    IN  IF r >= 1 /\ HasAt(s, i + r, <<"*", "*">>) /\ At(s, i + r + 2) \notin Digit
        THEN r + 2 ELSE 0

\* /\* +/
MatchStarSpace(s, i) ==
    LET r == RunLen(s, i + 1, {SP})
    IN  IF At(s, i) = "*" /\ r >= 1 THEN r + 1 ELSE 0

\* / +\*/
MatchSpaceStar(s, i) ==
    LET r == RunLen(s, i, {SP})
    IN  IF r >= 1 /\ At(s, i + r) = "*" THEN r + 1 ELSE 0

\* the group (\*\*\d) at position i
BoldDigitAt(s, i) == HasAt(s, i, <<"*", "*">>) /\ At(s, i + 2) \in Digit

\* /\?(\*\*\d)/
MatchQuestionParNum(s, i) ==
    IF At(s, i) = "?" /\ BoldDigitAt(s, i + 1) THEN 4 ELSE 0

\* /\?\s+(\*\*\d)/
MatchQuestionSpaceParNum(s, i) ==
    LET r == RunLen(s, i + 1, WS)
    IN  IF At(s, i) = "?" /\ r >= 1 /\ BoldDigitAt(s, i + 1 + r) THEN r + 4 ELSE 0

\* /\?([A-Z])/
MatchQuestionCapital(s, i) ==
    IF At(s, i) = "?" /\ At(s, i + 1) \in Upper THEN 2 ELSE 0

ListMarker == {"-", "*", "+"}

\* /^([-*+])\s*/m : ^ is the start of the string or the place after a line break
MatchListMarker(s, i) ==
    IF (i = 1 \/ At(s, i - 1) = NL) /\ At(s, i) \in ListMarker
    THEN 1 + RunLen(s, i + 1, WS) ELSE 0

\* />\s+$/m : $ is the end of the string or the place before a line break; the
\* greedy \s+ is cut back to the longest run that ends at such a place
BlockquoteTails(s, i) ==
    {t \in 1..RunLen(s, i + 1, WS) : i + t = Len(s) \/ At(s, i + t + 1) = NL}
MatchBlockquoteTail(s, i) ==
    IF At(s, i) = ">" /\ BlockquoteTails(s, i) /= {}
    THEN 1 + Max(BlockquoteTails(s, i)) ELSE 0

\* /\n{3,}/
MatchNewlines(s, i) ==
    LET r == RunLen(s, i, {NL}) IN IF r >= 3 THEN r ELSE 0

\* the passes, by name
MatchLen(id, s, i) ==
    CASE id = "image"            -> MatchImage(s, i)
      [] id = "asteriskRun"      -> MatchAsteriskRun(s, i)
      [] id = "brokenBold"       -> MatchBrokenBold(s, i)
      [] id = "emptyBold"        -> MatchEmptyBold(s, i)
      [] id = "spacePunct"       -> MatchSpacePunct(s, i)
      [] id = "spaces"           -> MatchSpaces(s, i)
      [] id = "boldOpenSpace"    -> MatchBoldOpenSpace(s, i)
      [] id = "spaceBoldClose"   -> MatchSpaceBoldClose(s, i)
      [] id = "starSpace"        -> MatchStarSpace(s, i)
      [] id = "spaceStar"        -> MatchSpaceStar(s, i)
      [] id = "questionParNum"   -> MatchQuestionParNum(s, i)
      [] id = "questionSpParNum" -> MatchQuestionSpaceParNum(s, i)
      [] id = "questionCapital"  -> MatchQuestionCapital(s, i)
      [] id = "listMarker"       -> MatchListMarker(s, i)
      [] id = "blockquoteTail"   -> MatchBlockquoteTail(s, i)
      [] id = "newlines"         -> MatchNewlines(s, i)

\* the replacement string of a match of length n at position i
Replacement(id, s, i, n) ==
    CASE id \in {"image", "asteriskRun", "emptyBold"} -> <<>>
      [] id \in {"brokenBold", "spaces"}              -> <<SP>>
      [] id = "spacePunct"                            -> <<s[i + n - 1]>>
      [] id \in {"boldOpenSpace", "spaceBoldClose"}   -> <<"*", "*">>
      [] id \in {"starSpace", "spaceStar"}            -> <<"*">>
      [] id \in {"questionParNum", "questionSpParNum"} ->
             <<"?", NL, NL>> \o SubSeq(s, i + n - 3, i + n - 1)
      [] id = "questionCapital"                       -> <<"?", NL, NL, s[i + 1]>>
      [] id = "listMarker"                            -> <<s[i], SP>>
      [] id = "blockquoteTail"                        -> <<">">>
      [] id = "newlines"                              -> <<NL, NL>>

\* String.prototype.replace with a /g pattern: scan from the left, replace a
\* match and go on behind it, copy the character where there is none
RECURSIVE ReplaceFrom(_, _, _)
ReplaceFrom(id, s, i) ==
    IF i > Len(s) THEN <<>>
    ELSE LET n == MatchLen(id, s, i)
         IN  IF n > 0
             THEN Replacement(id, s, i, n) \o ReplaceFrom(id, s, i + n)
             ELSE <<s[i]>> \o ReplaceFrom(id, s, i + 1)

ReplaceAll(id, s) == ReplaceFrom(id, s, 1)

----------------------------------------------------------------------------
(* The per-line map of line 248..263 *)

\* word.charAt(0).toUpperCase() + word.slice(1)
CapitalizeWord(word) ==
    IF Len(word) = 0 THEN word
    ELSE <<ToUpperChar(word[1])>> \o SubSeq(word, 2, Len(word))

\* TitleCase without the toLowerCase()
TitleCaseNoLower(heading) ==
    LET words == Split(heading, SP)
    IN  Join([k \in 1..Len(words) |-> CapitalizeWord(words[k])], <<SP>>)

\* heading.toLowerCase().split(' ').map(...).join(' ')
TitleCase(heading) ==
    LET words == Split(ToLowerCase(heading), SP)
    IN  Join([k \in 1..Len(words) |-> CapitalizeWord(words[k])], <<SP>>)

HeadingPrefix == <<"#", "#", SP>>

\* the callback of .map(): an all-uppercase "## " line is returned in title
\* case (and not trimmed), every other line with its trailing white space cut
MapLine(line) ==
    IF StartsWith(line, HeadingPrefix)
    THEN LET heading == SubSeq(line, 4, Len(line))
         IN  IF heading = ToUpperCase(heading)
             THEN HeadingPrefix \o TitleCase(heading)
             ELSE TrimEnd(line)
    ELSE TrimEnd(line)

\* .split('\n').map(...).join('\n')
MapLinesOf(s) ==
    LET lines == Split(s, NL)
    IN  Join([k \in 1..Len(lines) |-> MapLine(lines[k])], <<NL>>)

----------------------------------------------------------------------------
(* The chain of line 217..266, one position per call *)

PcOrder ==
    <<"image", "asteriskRun", "brokenBold", "emptyBold", "spacePunct", "spaces",
      "boldOpenSpace", "spaceBoldClose", "starSpace", "spaceStar",
      "questionParNum", "questionSpParNum", "questionCapital", "listMarker",
      "blockquoteTail", "newlines", "mapLines", "trim", "done">>

After(p) == PcOrder[(CHOOSE k \in 1..Len(PcOrder) : PcOrder[k] = p) + 1]

\* one .replace(/.../g, ...) of the chain
RegexPass(id) ==
    /\ pc = id
    /\ md' = ReplaceAll(id, md)
    /\ prev' = md
    /\ pc' = After(id)
    /\ UNCHANGED <<html, applied, raw, round, out1>>
    /\ UNCHANGED pageVars

StripImages            == RegexPass("image")
StripAsteriskRuns      == RegexPass("asteriskRun")
FixBrokenBold          == RegexPass("brokenBold")
StripEmptyBold         == RegexPass("emptyBold")
TightenPunctuation     == RegexPass("spacePunct")
CollapseSpaces         == RegexPass("spaces")
TightenBoldOpen        == RegexPass("boldOpenSpace")
TightenBoldClose       == RegexPass("spaceBoldClose")
TightenStarOpen        == RegexPass("starSpace")
TightenStarClose       == RegexPass("spaceStar")
BreakBeforeParNum      == RegexPass("questionParNum")
BreakBeforeSpacedParNum == RegexPass("questionSpParNum")
BreakBeforeCapital     == RegexPass("questionCapital")
SpaceListMarkers       == RegexPass("listMarker")
TrimBlockquoteTails    == RegexPass("blockquoteTail")
CollapseBlankLines     == RegexPass("newlines")

MapLines ==
    /\ pc = "mapLines"
    /\ md' = MapLinesOf(md)
    /\ prev' = md
    /\ pc' = After("mapLines")
    /\ UNCHANGED <<html, applied, raw, round, out1>>
    /\ UNCHANGED pageVars

TrimAll ==
    /\ pc = "trim"
    /\ md' = Trim(md)
    /\ prev' = md
    /\ pc' = After("trim")
    /\ UNCHANGED <<html, applied, raw, round, out1>>
    /\ UNCHANGED pageVars

\* a caller runs the chain again on its own output
CleanAgain ==
    /\ pc = "done"
    /\ round = 1
    /\ round' = 2
    /\ out1' = md
    /\ prev' = md
    /\ pc' = "image"
    /\ UNCHANGED <<html, applied, raw, md>>
    /\ UNCHANGED pageVars

NextClean ==
    \/ StripImages
    \/ StripAsteriskRuns
    \/ FixBrokenBold
    \/ StripEmptyBold
    \/ TightenPunctuation
    \/ CollapseSpaces
    \/ TightenBoldOpen
    \/ TightenBoldClose
    \/ TightenStarOpen
    \/ TightenStarClose
    \/ BreakBeforeParNum
    \/ BreakBeforeSpacedParNum
    \/ BreakBeforeCapital
    \/ SpaceListMarkers
    \/ TrimBlockquoteTails
    \/ CollapseBlankLines
    \/ MapLines
    \/ TrimAll

NextTwice == NextClean \/ CleanAgain

\* the whole chain as a function
RECURSIVE RunPasses(_, _)
RunPasses(s, k) ==
    IF PcOrder[k] = "mapLines" THEN s ELSE RunPasses(ReplaceAll(PcOrder[k], s), k + 1)

Clean(s) == Trim(MapLinesOf(RunPasses(s, 1)))

----------------------------------------------------------------------------
(* Inputs of the chain: every string over an alphabet up to a length *)

Strings(A, n) == UNION {[1..k -> A] : k \in 0..n}

InitChain(inputs) ==
    /\ html = <<>>
    /\ applied = <<>>
    /\ raw \in inputs
    /\ md = raw
    /\ prev = raw
    /\ pc = "image"
    /\ round = 1
    /\ out1 = <<>>
    /\ PageIdle

MaxStarLen == 5
StarAlphabet == {"*", SP, NL, "a", "1"}
InitStars == InitChain(Strings(StarAlphabet, MaxStarLen))
SpecTwice == InitStars /\ [][NextTwice]_vars

MaxBlankLen == 6
BlankAlphabet == {"a", SP, NL}
InitBlank == InitChain(Strings(BlankAlphabet, MaxBlankLen))
SpecBlank == InitBlank /\ [][NextClean]_vars

MaxQuestionLen == 5
QuestionAlphabet == {"?", "A", "*", "1", SP, NL}
InitQuestion == InitChain(Strings(QuestionAlphabet, MaxQuestionLen))
SpecQuestion == InitQuestion /\ [][NextClean]_vars

MaxHeadingLen == 4
HeadingAlphabet == {"A", "B", "c", SP, TAB, NL}
HeadingInputs ==
    {p \o b : p \in {<<>>, HeadingPrefix}, b \in Strings(HeadingAlphabet, MaxHeadingLen)}
InitHeading == InitChain(HeadingInputs)
SpecHeading == InitHeading /\ [][NextClean]_vars

----------------------------------------------------------------------------
(* The parsed fragment.  turndownService.turndown(html) (line 214) parses   *)
(* the string into a DOM tree and walks it; the model starts from the tree. *)
(* A node is an element (nodeType 1) or a text node (tag "#text").          *)

\* what getAttribute returns for an attribute the element does not carry
Null == <<"null">>

NoAttrs ==
    [style |-> Null, ariaHidden |-> Null, pnum |-> Null,
     href |-> Null, alt |-> Null, src |-> Null]

Element(tag, classes, attrs, kids) ==
    [tag |-> tag, classes |-> classes, attrs |-> attrs, kids |-> kids, text |-> <<>>]

Text(s) ==
    [tag |-> "#text", classes |-> {}, attrs |-> NoAttrs, kids |-> <<>>, text |-> s]

IsText(n) == n.tag = "#text"

\* Node.textContent
RECURSIVE TextContent(_)
TextContent(n) ==
    IF IsText(n) THEN n.text
    ELSE Join([k \in 1..Len(n.kids) |-> TextContent(n.kids[k])], <<>>)

\* element.querySelector of one of the tags
RECURSIVE HasDescendant(_, _)
HasDescendant(n, tags) ==
    \E k \in 1..Len(n.kids) :
        n.kids[k].tag \in tags \/ HasDescendant(n.kids[k], tags)

----------------------------------------------------------------------------
(* Turndown's node classification (the library behind line 1 and 7..15)     *)

BlockElements ==
    {"ADDRESS", "ARTICLE", "ASIDE", "BLOCKQUOTE", "DIV", "FIGCAPTION", "FIGURE",
     "FOOTER", "H1", "H2", "H3", "H4", "H5", "H6", "HEADER", "LI", "MAIN", "NAV",
     "OL", "P", "PRE", "SECTION", "TABLE", "UL"}

VoidElements == {"AREA", "BR", "HR", "IMG", "INPUT", "LINK", "META", "WBR"}

MeaningfulWhenBlank ==
    {"A", "TABLE", "THEAD", "TBODY", "TFOOT", "TH", "TD", "IFRAME", "SCRIPT",
     "AUDIO", "VIDEO"}

IsBlock(n) == n.tag \in BlockElements

\* an element with no text but white space, that is not and holds no void or
\* meaningful-when-blank element: Turndown gives it to its blank rule
IsBlank(n) ==
    /\ n.tag \notin VoidElements
    /\ n.tag \notin MeaningfulWhenBlank
    /\ \A k \in 1..Len(TextContent(n)) : TextContent(n)[k] \in WS
    /\ ~HasDescendant(n, VoidElements)
    /\ ~HasDescendant(n, MeaningfulWhenBlank)

----------------------------------------------------------------------------
(* The filters of the rules, line 17..211 *)

\* turndownService.remove([...]), line 18 and 21
RemoveTags == {"IMG", "PICTURE", "FIGURE", "SCRIPT", "STYLE", "NOSCRIPT", "IFRAME", "SVG"}

DisplayNoneSpaced == <<"d", "i", "s", "p", "l", "a", "y", ":", SP, "n", "o", "n", "e">>
DisplayNone == <<"d", "i", "s", "p", "l", "a", "y", ":", "n", "o", "n", "e">>
TrueValue == <<"t", "r", "u", "e">>

\* element.getAttribute('style') || ''
StyleOf(n) == IF n.attrs.style = Null THEN <<>> ELSE n.attrs.style

RemoveNavFilter(n) == n.tag \in {"NAV", "HEADER", "FOOTER", "ASIDE"}

RemoveHiddenFilter(n) ==
    \/ "hidden" \in n.classes
    \/ Contains(StyleOf(n), DisplayNoneSpaced)
    \/ Contains(StyleOf(n), DisplayNone)
    \/ n.attrs.ariaHidden = TrueValue

RemoveAnswerFieldsFilter(n) == n.tag = "DIV" /\ "gen-field" \in n.classes

QuestionClasses == {"questionBox", "qu", "question", "q"}
QuestionBoxFilter(n) ==
    n.tag \in {"DIV", "P"} /\ n.classes \cap QuestionClasses /= {}

CitationClasses == {"b", "cite", "scripture", "scriptureCitation"}
\* ScriptureCitationFilter without the anchors
ScriptureCitationFilterNoAnchor(n) ==
    n.tag = "SPAN" /\ n.classes \cap CitationClasses /= {}
ScriptureCitationFilter(n) ==
    n.tag \in {"A", "SPAN"} /\ n.classes \cap CitationClasses /= {}

ParNumClasses == {"parNum", "paragraphNumber", "pNum"}
HasParNumClass(n) == n.classes \cap ParNumClasses /= {}
ParagraphNumberFilter(n) == n.tag \in {"SPAN", "SUP"} /\ HasParNumClass(n)

EmphasisFilter(n) == n.tag \in {"EM", "I"}

\* inParNum: some ancestor carries a paragraph-number class (the while loop
\* of line 142..152)
StrongFilter(n, inParNum) ==
    IF inParNum THEN FALSE
    ELSE IF n.classes \cap {"b", "cite", "scripture"} /= {} THEN FALSE
    ELSE n.tag = "STRONG"

BlockquoteFilter(n) == n.tag = "BLOCKQUOTE"

CaptionFilter(n) ==
    \/ n.tag = "FIGCAPTION"
    \/ "caption" \in n.classes
    \/ "figcaption" \in n.classes

\* node.nodeType === 3: rules are only asked about elements
CleanWhitespaceFilter(n) == IsText(n)

\* the rules of Turndown's CommonMark set that the tags of the model meet
CommonmarkRules ==
    <<"cm.paragraph", "cm.blockquote", "cm.inlineLink", "cm.emphasis",
      "cm.strong", "cm.image">>

Filter(rule, n, inParNum) ==
    CASE rule = "removeNav"          -> RemoveNavFilter(n)
      [] rule = "removeHidden"       -> RemoveHiddenFilter(n)
      [] rule = "removeAnswerFields" -> RemoveAnswerFieldsFilter(n)
      [] rule = "questionBox"        -> QuestionBoxFilter(n)
      [] rule = "scriptureCitation"  -> ScriptureCitationFilter(n)
      [] rule = "paragraphNumber"    -> ParagraphNumberFilter(n)
      [] rule = "emphasis"           -> EmphasisFilter(n)
      [] rule = "strong"             -> StrongFilter(n, inParNum)
      [] rule = "blockquote"         -> BlockquoteFilter(n)
      [] rule = "caption"            -> CaptionFilter(n)
      [] rule = "cleanWhitespace"    -> CleanWhitespaceFilter(n)
      [] rule = "cm.paragraph"       -> n.tag = "P"
      [] rule = "cm.blockquote"      -> n.tag = "BLOCKQUOTE"
      [] rule = "cm.inlineLink"      -> n.tag = "A" /\ n.attrs.href \notin {Null, <<>>}
      [] rule = "cm.emphasis"        -> n.tag \in {"EM", "I"}
      [] rule = "cm.strong"          -> n.tag \in {"STRONG", "B"}
      [] rule = "cm.image"           -> n.tag = "IMG"

\* the addRule calls in the order of the source
AddedRules ==
    <<"removeNav", "removeHidden", "removeAnswerFields", "questionBox",
      "scriptureCitation", "paragraphNumber", "emphasis", "strong", "blockquote",
      "caption", "cleanWhitespace">>

Reverse(s) == [k \in 1..Len(s) |-> s[Len(s) + 1 - k]]

\* Turndown's Rules.add puts a rule in FRONT of the array (unshift), before
\* the CommonMark rules the array starts with: the rule added last is asked first
RulesArray == Reverse(AddedRules) \o CommonmarkRules

\* Rules.forNode: the blank rule, then the first rule of the array whose
\* filter holds, then the remove list, then the default rule
RuleFor(n, inParNum) ==
    LET hits == {k \in 1..Len(RulesArray) : Filter(RulesArray[k], n, inParNum)}
    IN  IF IsBlank(n) THEN "blank"
        ELSE IF hits /= {} THEN RulesArray[Min(hits)]
        ELSE IF n.tag \in RemoveTags THEN "remove"
        ELSE "default"

----------------------------------------------------------------------------
(* The replacements of the rules *)

\* content.replace(/\*\*/g, ''), line 76
RECURSIVE StripBold(_)
StripBold(s) ==
    IF Len(s) = 0 THEN s
    ELSE IF HasAt(s, 1, <<"*", "*">>) THEN StripBold(SubSeq(s, 3, Len(s)))
    ELSE <<s[1]>> \o StripBold(Tail(s))

QuestionBoxReplacement(content) ==
    LET cleanContent == StripBold(Trim(content))
    IN  IF cleanContent /= <<>> THEN <<NL, NL>> \o cleanContent \o <<NL, NL>> ELSE <<>>

ScriptureCitationReplacement(content) == Trim(content)

\* only the data-pnum attribute is read, the content is dropped
ParagraphNumberReplacement(n) ==
    LET parNum == n.attrs.pnum
    IN  IF parNum \notin {Null, <<>>}
        THEN <<"*", "*">> \o parNum \o <<"*", "*", SP>>
        ELSE <<>>

EmphasisReplacement(content) ==
    LET trimmed == Trim(content)
    IN  IF trimmed /= <<>> THEN <<"*">> \o trimmed \o <<"*">> ELSE <<>>

StrongReplacement(content) == Trim(content)

BlockquoteReplacement(content) ==
    LET trimmed == Trim(content)
        lines == Split(trimmed, NL)
    IN  IF trimmed = <<>> THEN <<>>
        ELSE <<NL, NL>>
             \o Join([k \in 1..Len(lines) |-> <<">", SP>> \o lines[k]], <<NL>>)
             \o <<NL, NL>>

CaptionReplacement(content) ==
    LET trimmed == Trim(content)
    IN  IF trimmed /= <<>>
        THEN <<NL, NL, "*">> \o trimmed \o <<"*", NL, NL>>
        ELSE <<>>

\* Turndown's cleanAttribute: attribute.replace(/(\n+\s*)+/g, '\n'), '' for none
RECURSIVE CleanAttribute(_)
CleanAttribute(a) ==
    IF a = Null \/ Len(a) = 0 THEN <<>>
    ELSE IF a[1] = NL
         THEN <<NL>> \o CleanAttribute(SubSeq(a, 2 + RunLen(a, 2, WS), Len(a)))
         ELSE <<a[1]>> \o CleanAttribute(Tail(a))

\* href.replace(/([()])/g, '\\$1')
EscapeParens(s) ==
    Join([k \in 1..Len(s) |->
            IF s[k] \in {"(", ")"} THEN <<"\\", s[k]>> ELSE <<s[k]>>], <<>>)

\* Turndown's inlineLink rule (linkStyle "inlined", the default the options of
\* line 7..15 leave in place); the fragments of the model carry no title
InlineLinkReplacement(content, n) ==
    <<"[">> \o content \o <<"]", "(">> \o EscapeParens(n.attrs.href) \o <<")">>

\* Turndown's image rule
ImageReplacement(n) ==
    LET alt == CleanAttribute(n.attrs.alt)
        src == IF n.attrs.src = Null THEN <<>> ELSE n.attrs.src
    IN  IF src /= <<>>
        THEN <<"!", "[">> \o alt \o <<"]", "(">> \o src \o <<")">>
        ELSE <<>>

\* Turndown's strong rule with strongDelimiter '**' (line 13)
LibraryStrongReplacement(content) ==
    IF Trim(content) = <<>> THEN <<>> ELSE <<"*", "*">> \o content \o <<"*", "*">>

Replace(rule, content, n) ==
    CASE rule \in {"removeNav", "removeHidden", "removeAnswerFields", "remove"} -> <<>>
      [] rule = "blank"             -> IF IsBlock(n) THEN <<NL, NL>> ELSE <<>>
      [] rule = "questionBox"       -> QuestionBoxReplacement(content)
      [] rule = "scriptureCitation" -> ScriptureCitationReplacement(content)
      [] rule = "paragraphNumber"   -> ParagraphNumberReplacement(n)
      [] rule = "emphasis"          -> EmphasisReplacement(content)
      [] rule = "strong"            -> StrongReplacement(content)
      [] rule = "blockquote"        -> BlockquoteReplacement(content)
      [] rule = "caption"           -> CaptionReplacement(content)
      [] rule = "cm.paragraph"      -> <<NL, NL>> \o content \o <<NL, NL>>
      [] rule = "cm.inlineLink"     -> InlineLinkReplacement(content, n)
      [] rule = "cm.strong"         -> LibraryStrongReplacement(content)
      [] rule = "cm.image"          -> ImageReplacement(n)
      [] rule = "default"           ->
             IF IsBlock(n) THEN <<NL, NL>> \o content \o <<NL, NL>> ELSE content

----------------------------------------------------------------------------
(* Turndown's walk: process, replacementForNode, join, postProcess *)

\* escape of a text node: the characters Turndown escapes wherever they stand
\* (its line-start escapes need a text that starts with - + = # ~ > or a
\* number and a dot, and its escape of the grave accent a text with one: no
\* text of the model has either)
EscapedChars == {"\\", "*", "[", "]", "_"}
Escape(s) ==
    Join([k \in 1..Len(s) |->
            IF s[k] \in EscapedChars THEN <<"\\", s[k]>> ELSE <<s[k]>>], <<>>)

\* join(output, replacement): the line breaks where the two meet are merged
\* into at most two
JoinOutput(output, replacement) ==
    LET t1 == RunLen(Reverse(output), 1, {NL})
        t2 == RunLen(replacement, 1, {NL})
        nls == IF t1 >= t2 THEN t1 ELSE t2
    IN  SubSeq(output, 1, Len(output) - t1)
        \o SubSeq(<<NL, NL>>, 1, IF nls >= 2 THEN 2 ELSE nls)
        \o SubSeq(replacement, t2 + 1, Len(replacement))

\* flankingWhitespace: the white space at the edges of an inline element's text
\* moves outside its markup (the elements of the model have none; the test
\* on the neighbouring text, which only drops it again, is left out)
LeadingWhitespace(n) ==
    IF IsBlock(n) THEN <<>>
    ELSE SubSeq(TextContent(n), 1, RunLen(TextContent(n), 1, WS))
TrailingWhitespace(n) ==
    LET tc == TextContent(n)
        r == RunLen(Reverse(tc), 1, WS)
    IN  IF IsBlock(n) \/ r = Len(tc) THEN <<>>
        ELSE SubSeq(tc, Len(tc) - r + 1, Len(tc))

RECURSIVE ProcessFrom(_, _, _, _)
RECURSIVE ReplacementForNode(_, _)

\* process(parentNode): the children's replacements joined, from child k on
ProcessFrom(kids, k, output, inParNum) ==
    IF k > Len(kids) THEN output
    ELSE LET node == kids[k]
             replacement == IF IsText(node) THEN Escape(node.text)
                            ELSE ReplacementForNode(node, inParNum)
         IN  ProcessFrom(kids, k + 1, JoinOutput(output, replacement), inParNum)

ReplacementForNode(n, inParNum) ==
    LET rule == RuleFor(n, inParNum)
        inner == ProcessFrom(n.kids, 1, <<>>, inParNum \/ HasParNumClass(n))
        leading == LeadingWhitespace(n)
        trailing == TrailingWhitespace(n)
        content == IF leading /= <<>> \/ trailing /= <<>> THEN Trim(inner) ELSE inner
    IN  leading \o Replace(rule, content, n) \o trailing

\* output.replace(/^[\t\r\n]+/, '').replace(/[\t\r\n\s]+$/, '')
PostProcess(output) ==
    TrimEnd(SubSeq(output, 1 + RunLen(output, 1, {TAB, NL}), Len(output)))

\* turndownService.turndown(html), line 214
TurndownOf(fragment) == PostProcess(ProcessFrom(fragment, 1, <<>>, FALSE))

\* the rule each top-level node of the fragment is given ("text" for a text node)
AppliedRules(fragment) ==
    [k \in 1..Len(fragment) |->
        IF IsText(fragment[k]) THEN "text" ELSE RuleFor(fragment[k], FALSE)]

\* convertHtmlToMarkdown up to line 214
Turndown ==
    /\ pc = "turndown"
    /\ raw' = TurndownOf(html)
    /\ md' = raw'
    /\ prev' = raw'
    /\ applied' = AppliedRules(html)
    /\ pc' = "image"
    /\ UNCHANGED <<html, round, out1>>
    /\ UNCHANGED pageVars

----------------------------------------------------------------------------
(* Fragments: one element under test, with every combination of tag, class  *)
(* list, visibility marker, attribute and children below, alone or followed *)
(* by paragraph text; and two whole fixtures.                               *)

TX == <<"X">>
TY == <<"Y">>

MaxClasses == 2
ClassPool == {"hidden", "gen-field", "question", "b", "parNum", "caption"}
ClassSets == {cs \in SUBSET ClassPool : Cardinality(cs) <= MaxClasses}

VisAttrs ==
    {NoAttrs,
     [NoAttrs EXCEPT !.style = DisplayNone],
     [NoAttrs EXCEPT !.style = DisplayNoneSpaced],
     [NoAttrs EXCEPT !.ariaHidden = TrueValue]}

StrongX == Element("STRONG", {}, NoAttrs, <<Text(TX)>>)
KidChoices ==
    {<<>>, <<Text(TX)>>, <<StrongX>>, <<Element("SUP", {}, NoAttrs, <<StrongX>>)>>}

GeneralTags ==
    {"NAV", "ASIDE", "DIV", "P", "EM", "STRONG", "B", "BLOCKQUOTE", "FIGCAPTION",
     "FIGURE"}

GeneralSubjects ==
    {Element(t, cs, a, ks) :
        t \in GeneralTags, cs \in ClassSets, a \in VisAttrs, ks \in KidChoices}

NumberedSubjects ==
    {Element(t, cs, [a EXCEPT !.pnum = p], ks) :
        t \in {"SPAN", "SUP"}, cs \in ClassSets, a \in VisAttrs,
        p \in {Null, <<"7">>}, ks \in KidChoices}

AnchorSubjects ==
    {Element("A", cs, [a EXCEPT !.href = h], ks) :
        cs \in ClassSets, a \in VisAttrs, h \in {Null, <<"u">>}, ks \in KidChoices}

ImageSubjects ==
    {Element("IMG", cs, [NoAttrs EXCEPT !.alt = al, !.src = s], <<>>) :
        cs \in ClassSets, al \in {<<>>, <<"a", NL, "b">>}, s \in {Null, <<"u">>}}

Subjects == GeneralSubjects \cup NumberedSubjects \cup AnchorSubjects \cup ImageSubjects

\* <div id="content"><span class="parNum" data-pnum="3"></span>
\* <p>What must we do?<strong>Obey</strong> the truth.</p></div>
ScenarioFragment ==
    <<Element("DIV", {}, NoAttrs,
        <<Element("SPAN", {"parNum"}, [NoAttrs EXCEPT !.pnum = <<"3">>], <<>>),
          Element("P", {}, NoAttrs,
            <<Text(<<"W", "h", "a", "t", SP, "m", "u", "s", "t", SP, "w", "e", SP, "d", "o", "?">>),
              Element("STRONG", {}, NoAttrs, <<Text(<<"O", "b", "e", "y">>)>>),
              Text(<<SP, "t", "h", "e", SP, "t", "r", "u", "t", "h", ".">>)>>)>>)>>

\* !<img src="u"><a href="u">t</a>
BangImageLinkFragment ==
    <<Text(<<"!">>),
      Element("IMG", {}, [NoAttrs EXCEPT !.src = <<"u">>], <<>>),
      Element("A", {}, [NoAttrs EXCEPT !.href = <<"u">>], <<Text(<<"t">>)>>)>>

Fragments ==
    {<<s>> \o tl : s \in Subjects, tl \in {<<>>, <<Text(TY)>>}}
    \cup {ScenarioFragment, BangImageLinkFragment}

Init ==
    /\ html \in Fragments
    /\ applied = <<>>
    /\ raw = <<>>
    /\ md = <<>>
    /\ prev = <<>>
    /\ pc = "turndown"
    /\ round = 1
    /\ out1 = <<>>
    /\ PageIdle

Next == Turndown \/ NextClean

Spec == Init /\ [][Next]_vars

----------------------------------------------------------------------------
(* Properties *)

\* the element under test and what follows it
HasSubject == Len(html) >= 1 /\ ~IsText(html[1])
Converted == pc /= "turndown"
Finished == pc = "done"

\* C1: the text inside a nav/header/footer/aside element, or inside an element
\* marked hidden (class "hidden", display:none style, aria-hidden="true"),
\* never appears in the output, whatever else the element is
Removable(n) == RemoveNavFilter(n) \/ RemoveHiddenFilter(n)
C1_RemovalComplete ==
    (Finished /\ HasSubject /\ Removable(html[1])) => ~Contains(md, TX)

\* C2: running the post-processing chain on its own output changes nothing
C2_Idempotent == (Finished /\ round = 2) => md = out1

\* "![" ... "](" ... ")" somewhere in s
HasImageSyntax(s) ==
    \E i \in 1..Len(s) :
        /\ HasAt(s, i, <<"!", "[">>)
        /\ \E j \in (i + 2)..Len(s) :
              /\ HasAt(s, j, <<"]", "(">>)
              /\ \E k \in (j + 2)..Len(s) : s[k] = ")"

\* C3: the final output holds no image markdown syntax
C3_NoImageSyntax == Finished => ~HasImageSyntax(md)

\* C4: a SPAN or SUP with a paragraph-number class and data-pnum = n is emitted
\* as "**n** " whatever its children are, directly before the text that follows
C4_ParagraphNumberFidelity ==
    (/\ Converted
     /\ Len(html) = 2
     /\ html[1].tag \in {"SPAN", "SUP"}
     /\ html[1].classes /= {}
     /\ html[1].classes \subseteq ParNumClasses
     /\ html[1].attrs = [NoAttrs EXCEPT !.pnum = html[1].attrs.pnum]
     /\ html[1].attrs.pnum /= Null
     /\ html[2] = Text(TY))
    => raw = <<"*", "*">> \o html[1].attrs.pnum \o <<"*", "*", SP>> \o TY

\* C5: the end-to-end scenario converts to
\* "**3** What must we do?" + blank line + "Obey the truth."
ScenarioOutput == <<"*", "*", "3", "*", "*", SP, "W", "h", "a", "t", SP, "m", "u", "s", "t", SP, "w", "e", SP, "d", "o", "?", NL, NL, "O", "b", "e", "y", SP, "t", "h", "e", SP, "t", "r", "u", "t", "h", ".">>
C5_Scenario == (Finished /\ html = ScenarioFragment) => md = ScenarioOutput

\* the bold paragraph-number marker or capital letter that follows the "?" at
\* position i of s (a marker also behind white space), <<>> when none does
FollowerOf(s, i) ==
    LET r == RunLen(s, i + 1, WS)
    IN  IF At(s, i + 1) \in Upper THEN <<s[i + 1]>>
        ELSE IF BoldDigitAt(s, i + 1 + r) THEN SubSeq(s, i + 1 + r, i + 3 + r)
        ELSE <<>>

\* no "?" of s is directly followed by a capital letter or by "**" and a digit
NoQuestionAdjacency(s) ==
    \A i \in 1..Len(s) :
        s[i] = "?" => (At(s, i + 1) \notin Upper /\ ~BoldDigitAt(s, i + 1))

\* C6: in the output no "?" is directly followed by a capital letter or a bold
\* paragraph-number marker, and every such pair of the input stands in the
\* output with exactly one blank line between the "?" and the follower
C6_QuestionSpacing ==
    (Finished /\ round = 1) =>
        /\ NoQuestionAdjacency(md)
        /\ \A i \in 1..Len(raw) :
              (raw[i] = "?" /\ FollowerOf(raw, i) /= <<>>)
                  => Contains(md, <<"?", NL, NL>> \o FollowerOf(raw, i))

\* the halves of C6 that do hold: no adjacency is left in the output, and a
\* capital letter that followed a "?" stands one blank line behind one
QuestionNeverAdjacent == Finished => NoQuestionAdjacency(md)
QuestionCapitalSeparated ==
    (Finished /\ round = 1) =>
        \A i \in 1..Len(raw) :
            (raw[i] = "?" /\ At(raw, i + 1) \in Upper)
                => Contains(md, <<"?", NL, NL, raw[i + 1]>>)

\* the lines the per-line map was given, and the lines it returned
MapInput == Split(prev, NL)
MapOutput == Split(md, NL)
Mapped == pc = "trim"

\* a "## " line whose heading holds no lowercase letter
IsUpperHeading(line) ==
    StartsWith(line, HeadingPrefix) /\ \A k \in 4..Len(line) : line[k] \notin Lower

\* the heading lowercased, the first character of each word capitalized, a word
\* being what stands between two characters of seps
TitleBy(heading, seps) ==
    [k \in 1..Len(heading) |->
        IF k = 1 \/ heading[k - 1] \in seps
        THEN ToUpperChar(ToLowerChar(heading[k]))
        ELSE ToLowerChar(heading[k])]

\* b is a with nothing but trailing white space cut: every letter is kept
KeepsCase(a, b) ==
    /\ Len(b) <= Len(a)
    /\ b = SubSeq(a, 1, Len(b))
    /\ \A k \in (Len(b) + 1)..Len(a) : a[k] \in WS

HeadingsTitledBy(seps) ==
    /\ Len(MapOutput) = Len(MapInput)
    /\ \A k \in 1..Len(MapInput) :
          IF IsUpperHeading(MapInput[k])
          THEN MapOutput[k] =
                   HeadingPrefix \o TitleBy(SubSeq(MapInput[k], 4, Len(MapInput[k])), seps)
          ELSE KeepsCase(MapInput[k], MapOutput[k])

\* C7 as stated: an all-uppercase "## " line comes out in title case, the first
\* character of each white-space-separated word capitalized; other lines keep
\* their letter case
C7_TitleCaseByWhitespace == Mapped => HeadingsTitledBy(WS)

\* C7 as amended: a word is what stands between two space characters (U+0020);
\* a letter behind a tab stays lowercase
C7_TitleCaseBySpace == Mapped => HeadingsTitledBy({SP})

\* a two-word heading went through the map
C7_Witness ==
    /\ Mapped
    /\ prev = HeadingPrefix \o <<"A", SP, "B", "A">>
    /\ md = HeadingPrefix \o <<"A", SP, "B", "a">>

\* an anchor the custom rules leave to Turndown's link rule
IsLinked(n) ==
    /\ n.tag = "A"
    /\ n.attrs.href \notin {Null, <<>>}
    /\ n.classes \cap CitationClasses = {}
    /\ ~CaptionFilter(n)
    /\ ~RemoveHiddenFilter(n)

\* the text that follows the element under test
TailText == IF Len(html) >= 2 THEN TextContent(html[2]) ELSE <<>>

\* C8 as stated: an anchor without a scripture-citation class is rendered as
\* its text only: neither its href nor the "](" of a link is in the output
C8_NoLinkUrls ==
    (Finished /\ HasSubject /\ html[1].tag = "A"
        /\ html[1].classes \cap CitationClasses = {})
    => (~Contains(md, <<"]", "(">>) /\ ~Contains(md, <<"u">>))

\* C8 as amended: an anchor with a href that no custom rule takes is rendered
\* "[label](href)", the label being its converted content (which holds its
\* text); every other anchor (no href, a scripture-citation class, a
\* caption class, a hidden marker) is rendered without link syntax and URL
C8_AnchorRendering ==
    (Finished /\ HasSubject /\ html[1].tag = "A") =>
        IF IsLinked(html[1])
        THEN LET link == <<"]", "(">> \o html[1].attrs.href \o <<")">> \o TailText
                 label == SubSeq(md, 2, Len(md) - Len(link))
             IN  /\ md = <<"[">> \o label \o link
                 /\ Contains(label, TextContent(html[1]))
        ELSE ~Contains(md, <<"]", "(">>) /\ ~Contains(md, <<"u">>)

\* a plain anchor with a href came out as a link, and one with a
\* scripture-citation class as its text
C8_Witness ==
    /\ Finished
    /\ HasSubject
    /\ html[1].tag = "A"
    /\ \/ IsLinked(html[1]) /\ md = <<"[", "X", "]", "(", "u", ")", "Y">>
       \/ (html[1].classes = {"b"} /\ html[1].attrs.href = <<"u">> /\ md = <<"X", "Y">>)

\* the evaluation order the specification documents
DocumentedOrder ==
    <<"remove", "removeNav", "removeHidden", "removeAnswerFields", "questionBox",
      "scriptureCitation", "paragraphNumber", "emphasis", "strong", "blockquote",
      "caption">>

Matches(rule, n) ==
    IF rule = "remove" THEN n.tag \in RemoveTags ELSE Filter(rule, n, FALSE)

MatchingRules(n) == {k \in 1..Len(DocumentedOrder) : Matches(DocumentedOrder[k], n)}

\* C9: an element (with content) that matches more than one rule is given the
\* matching rule that comes first in the documented order
C9_RulePrecedence ==
    (/\ Converted
     /\ HasSubject
     /\ ~IsBlank(html[1])
     /\ TextContent(html[1]) /= <<>>
     /\ Cardinality(MatchingRules(html[1])) >= 2)
    => applied[1] = DocumentedOrder[Min(MatchingRules(html[1]))]

\* C10: the output never holds three line breaks in a row
C10_BlankLineCap == Finished => ~Contains(md, <<NL, NL, NL>>)

\* a line that ends with a space or a tab
EndsBlank(line) == Len(line) > 0 /\ line[Len(line)] \in {SP, TAB}

\* C11: no line of the post-processor output ends with a space or a tab,
\* level-2 heading lines converted from uppercase included
C11_NoTrailingWhitespace ==
    Finished => \A k \in 1..Len(Split(md, NL)) : ~EndsBlank(Split(md, NL)[k])

-----------------------------------------------------------------------------
(* The chain on numbered paragraphs: what the paragraphNumber rule emits     *)
(* (line 121), "**" digits "** ", followed by the paragraph text, and on     *)
(* bold spans that open with a space.                                        *)

MaxParTextLen == 3
ParDigits == {<<"1">>, <<"2">>, <<"1", "2">>}
ParLetters == {"a", "B"}
ParTextAlphabet == {"a", "B", "*", "?", SP}

\* `**${parNum}** ` of line 121
ParMarker(d) == <<"*", "*">> \o d \o <<"*", "*", SP>>

ParNumInputs ==
    {ParMarker(d) \o <<l>> \o t :
        d \in ParDigits, l \in ParLetters, t \in Strings(ParTextAlphabet, MaxParTextLen - 1)}

\* a bold span whose text stands one space behind the opening marker
SpacedBoldInputs ==
    {<<"a", "*", "*", SP, l>> \o t \o <<"*", "*">> :
        l \in ParLetters, t \in Strings(ParLetters, MaxParTextLen - 1)}

InitParNum == InitChain(ParNumInputs \cup SpacedBoldInputs)
SpecParNum == InitParNum /\ [][NextClean]_vars

\* C12: for an input "**<digits>** <text>", text starting with a letter, the
\* output still begins with the marker, exactly one space and the text's first
\* letter; and after a bold-open marker of a non-numeric span no space is left
C12_ParNumSpacing ==
    Finished =>
        /\ \A d \in ParDigits, l \in ParLetters :
              StartsWith(raw, ParMarker(d) \o <<l>>) => StartsWith(md, ParMarker(d) \o <<l>>)
        /\ raw \in SpacedBoldInputs => ~Contains(md, <<"*", "*", SP>>)

\* the half of C12 that does hold: a space behind "**" that no digit follows is
\* removed from a bold span that opens with it
BoldOpenSpaceRemoved ==
    (Finished /\ raw \in SpacedBoldInputs) => ~Contains(md, <<"*", "*", SP>>)

-----------------------------------------------------------------------------
(* The server action extractContent (extract-content.ts, line 11..133).     *)
(* What fetch and cheerio find at the URL is the environment's choice.  An  *)
(* optional field of ExtractionResult that is absent is modelled by the     *)
(* empty value: every reader of html and markdown treats undefined and ''   *)
(* alike (page.tsx line 111, 112), and an absent error is NoError.          *)

\* the URL values the user can put into the input
BlankUrls == {"", " "}
JwOrgPattern == {"https://www.jw.org/a"}
WolJwOrgPattern == {"https://wol.jw.org/b"}
Urls == BlankUrls \cup {"x"} \cup JwOrgPattern \cup WolJwOrgPattern

InvalidUrlMessage == "Invalid URL format. Please enter a valid jw.org or wol.jw.org link."
StatusMessage == "The page is not reachable. Status: 404"
StructureMessage == "Content could not be loaded. The page structure may have changed."
EmptyContentMessage == "Content could not be loaded. The #content div is empty."
TimeoutMessage == "The page is not reachable. Request timed out."
ConnectionMessage == "The page is not reachable. Please check your internet connection."
UnexpectedMessage == "An unexpected error occurred. Please try again."

NoError == [type |-> "", message |-> ""]
Failure(type, message) ==
    [success |-> FALSE, html |-> <<>>, markdown |-> <<>>,
     error |-> [type |-> type, message |-> message]]
Success(h, m) == [success |-> TRUE, html |-> h, markdown |-> m, error |-> NoError]

\* what the request of line 28 meets: fetch throws (a timeout, a fetch error,
\* anything else), or answers with a status and a page; the page has the text
\* of its header h1 (title) and, if it has a #content.content div, the div's
\* inner HTML (content)
Titles == {<<>>, <<"T">>}
Contents ==
    {<<>>, <<Text(TX)>>, <<Element("NAV", {}, NoAttrs, <<Text(TX)>>)>>,
     <<Element("P", {}, NoAttrs, <<Text(TX)>>), Text(TY)>>}
Thrown(kind) ==
    [fetch |-> kind, ok |-> FALSE, title |-> <<>>, hasContent |-> FALSE, content |-> <<>>]
Responses ==
    {Thrown(k) : k \in {"timeout", "fetchFailed", "threw"}}
    \cup {[fetch |-> "answered", ok |-> FALSE, title |-> <<>>, hasContent |-> FALSE,
           content |-> <<>>]}
    \cup {[fetch |-> "answered", ok |-> TRUE, title |-> t, hasContent |-> FALSE,
           content |-> <<>>] : t \in Titles}
    \cup {[fetch |-> "answered", ok |-> TRUE, title |-> t, hasContent |-> TRUE,
           content |-> c] : t \in Titles, c \in Contents}

ExtractContent(u, resp) ==
    IF u \notin JwOrgPattern /\ u \notin WolJwOrgPattern
    THEN Failure("INVALID_URL", InvalidUrlMessage)
    ELSE IF resp.fetch = "timeout" THEN Failure("NETWORK_ERROR", TimeoutMessage)
    ELSE IF resp.fetch = "fetchFailed" THEN Failure("NETWORK_ERROR", ConnectionMessage)
    ELSE IF resp.fetch = "threw" THEN Failure("NETWORK_ERROR", UnexpectedMessage)
    ELSE IF ~resp.ok THEN Failure("NETWORK_ERROR", StatusMessage)
    ELSE IF ~resp.hasContent THEN Failure("CONTENT_NOT_FOUND", StructureMessage)
    ELSE IF resp.content = <<>> THEN Failure("CONTENT_NOT_FOUND", EmptyContentMessage)
    ELSE LET converted == Clean(TurndownOf(resp.content))
         IN  Success(resp.content,
                     IF resp.title /= <<>>
                     THEN <<"#", SP>> \o resp.title \o <<NL, NL>> \o converted
                     ELSE converted)

-----------------------------------------------------------------------------
(* The Home page component (page.tsx).  One action per event handler; the   *)
(* guards are the conditions under which the page renders or enables the    *)
(* control that calls the handler.  handleExtract is two steps: up to the   *)
(* await of line 109, and the continuation once the call has settled.       *)

MaxTimers == 2
Edits == {<<>>, <<"e">>}

\* validateUrl (line 45..61): its return value, and the error it sets
ValidateUrl(u) == u \notin BlankUrls /\ (u \in JwOrgPattern \/ u \in WolJwOrgPattern)
ValidateError(u) ==
    IF u \in BlankUrls \/ ValidateUrl(u) THEN "" ELSE InvalidUrlMessage

HandleUrlChange(newUrl) ==
    /\ url' = newUrl
    /\ error' = ValidateError(newUrl)
    /\ cleared' = FALSE
    /\ UNCHANGED <<markdown, extractedHtml, isLoading, isCopied, inflight, timers>>
    /\ UNCHANGED convVars

\* the Clear button is rendered while url is not empty (line 158)
HandleClear ==
    /\ url /= ""
    /\ url' = ""
    /\ error' = ""
    /\ markdown' = <<>>
    /\ extractedHtml' = <<>>
    /\ isCopied' = FALSE
    /\ cleared' = TRUE
    /\ UNCHANGED <<isLoading, inflight, timers>>
    /\ UNCHANGED convVars

\* the Copy button and Ctrl+K (line 34, 213); the clipboard may refuse
HandleCopy(written) ==
    /\ markdown /= <<>>
    /\ ~isLoading
    /\ timers < MaxTimers
    /\ IF written
       THEN isCopied' = TRUE /\ timers' = timers + 1
       ELSE UNCHANGED <<isCopied, timers>>
    /\ UNCHANGED <<url, error, markdown, extractedHtml, isLoading, inflight, cleared>>
    /\ UNCHANGED convVars

\* the callback of setTimeout (line 88..90)
CopiedTimeout ==
    /\ timers > 0
    /\ timers' = timers - 1
    /\ isCopied' = FALSE
    /\ UNCHANGED <<url, error, markdown, extractedHtml, isLoading, inflight, cleared>>
    /\ UNCHANGED convVars

\* the textarea's onChange (line 262); the textarea is rendered while markdown
\* is not empty and nothing is loading
EditMarkdown(value) ==
    /\ markdown /= <<>>
    /\ ~isLoading
    /\ markdown' = value
    /\ UNCHANGED <<url, error, extractedHtml, isLoading, isCopied, inflight, timers, cleared>>
    /\ UNCHANGED convVars

\* handleExtract up to the await (line 98..109), called by the Extract button
\* (disabled={!url || !!error || isLoading}) or by Ctrl+Enter (line 27).  The
\* call either reaches the server, which answers with extractContent's result,
\* or is rejected.
HandleExtract(resp, reaches) ==
    /\ url /= ""
    /\ error = ""
    /\ ~isLoading
    /\ cleared' = FALSE
    /\ IF ~ValidateUrl(url)
       THEN /\ error' = ValidateError(url)
            /\ UNCHANGED <<markdown, extractedHtml, isLoading, inflight>>
       ELSE /\ isLoading' = TRUE
            /\ error' = ""
            /\ markdown' = <<>>
            /\ extractedHtml' = <<>>
            /\ inflight' = inflight \cup
                  {[settles |-> IF reaches THEN "resolved" ELSE "rejected",
                    result |-> IF reaches THEN ExtractContent(url, resp)
                               ELSE Failure("", "")]}
    /\ UNCHANGED <<url, isCopied, timers>>
    /\ UNCHANGED convVars

\* the continuation of handleExtract (line 111..121) for a call that settled
ExtractSettled(call) ==
    /\ call \in inflight
    /\ inflight' = inflight \ {call}
    /\ LET result == call.result
       IN  IF call.settles = "rejected"
           THEN error' = UnexpectedMessage /\ UNCHANGED <<markdown, extractedHtml>>
           ELSE IF result.success /\ result.markdown /= <<>>
           THEN /\ extractedHtml' = result.html
                /\ markdown' = result.markdown
                /\ UNCHANGED error
           ELSE IF result.error /= NoError
           THEN error' = result.error.message /\ UNCHANGED <<markdown, extractedHtml>>
           ELSE UNCHANGED <<error, markdown, extractedHtml>>
    /\ isLoading' = FALSE
    /\ UNCHANGED <<url, isCopied, timers, cleared>>
    /\ UNCHANGED convVars

InitPage ==
    /\ PageIdle
    /\ html = <<>>
    /\ applied = <<>>
    /\ raw = <<>>
    /\ md = <<>>
    /\ prev = <<>>
    /\ pc = "done"
    /\ round = 1
    /\ out1 = <<>>

NextPage ==
    \/ \E newUrl \in Urls : HandleUrlChange(newUrl)
    \/ HandleClear
    \/ \E written \in BOOLEAN : HandleCopy(written)
    \/ CopiedTimeout
    \/ \E value \in Edits : EditMarkdown(value)
    \/ \E resp \in Responses, reaches \in BOOLEAN : HandleExtract(resp, reaches)
    \/ \E call \in inflight : ExtractSettled(call)

SpecPage == InitPage /\ [][NextPage]_vars

\* C13: when an extraction finishes (isLoading goes back to false) the page
\* shows an outcome: markdown or error is not empty, whatever extractContent
\* returned
C13_OutcomeShown ==
    [][(isLoading /\ ~isLoading') => (markdown' /= <<>> \/ error' /= "")]_vars

AllEmpty == url = "" /\ error = "" /\ markdown = <<>> /\ extractedHtml = <<>>

\* C14: after handleClear, url, error, markdown and extractedHtml stay empty
\* until a URL is typed or an extraction is started; a call that was in flight
\* does not repopulate them
C14_ClearedStaysEmpty == cleared => AllEmpty

====
